---- MODULE Spec2Model ----
(***************************************************************************)
(* Model of src/analyzer.rs: the schema analysis that turns a              *)
(* JSONSchemaProps tree into a list of OutputStruct records.               *)
(*                                                                         *)
(* A Rust String is a sequence of one-character strings, so that           *)
(* uppercase_first_letter, format! concatenation and the byte order of     *)
(* BTreeMap<String, _> keys are computed, not assumed.                     *)
(* Option<T> is a sequence of length 0 (None) or 1 (Some).                 *)
(***************************************************************************)
EXTENDS Integers, Sequences, FiniteSets, TLC

\* ------------------------------------------------------------------------
\* Option

None == <<>>
Some(x) == <<x>>
is_some(o) == o # None
is_none(o) == o = None

\* Option<String>/Option<BTreeMap>/Option<Vec>::unwrap_or_default: the default of
\* String, BTreeMap and Vec is the empty one, <<>> in all three representations.
unwrap_or_default(o) == IF o = None THEN <<>> ELSE o[1]

\* Option<bool>::unwrap_or(false)
unwrap_or_false(o) == IF o = None THEN FALSE ELSE o[1]

\* ------------------------------------------------------------------------
\* Strings

LowerCase == <<"a","b","c","d","e","f","g","h","i","j","k","l","m",
               "n","o","p","q","r","s","t","u","v","w","x","y","z">>
UpperCase == <<"A","B","C","D","E","F","G","H","I","J","K","L","M",
               "N","O","P","Q","R","S","T","U","V","W","X","Y","Z">>
Digits == <<"0","1","2","3","4","5","6","7","8","9">>

IndexOf(c, alphabet) == CHOOSE i \in 1..Len(alphabet) : alphabet[i] = c
IsIn(c, alphabet) == \E i \in 1..Len(alphabet) : alphabet[i] = c

\* The byte of an ASCII letter or digit: String's Ord compares bytes.
Byte(c) ==
    IF IsIn(c, UpperCase) THEN 64 + IndexOf(c, UpperCase)
    ELSE IF IsIn(c, LowerCase) THEN 96 + IndexOf(c, LowerCase)
    ELSE IF IsIn(c, Digits) THEN 47 + IndexOf(c, Digits)
    ELSE 0

\* a < b for Strings: lexicographic on bytes, a proper prefix first.
StrLess(a, b) ==
    \E i \in 1..(Len(b)) :
        /\ i - 1 <= Len(a)
        /\ \A j \in 1..(i - 1) : a[j] = b[j]
        /\ \/ i > Len(a)
           \/ Byte(a[i]) < Byte(b[i])

\* char::to_uppercase, an iterator of chars (one char for ASCII).
to_uppercase(c) ==
    IF IsIn(c, LowerCase) THEN <<UpperCase[IndexOf(c, LowerCase)]>> ELSE <<c>>

uppercase_first_letter(s) ==
    IF s = <<>> THEN <<>> ELSE to_uppercase(Head(s)) \o Tail(s)

StartsWith(s, p) == Len(p) <= Len(s) /\ SubSeq(s, 1, Len(p)) = p
EndsWith(s, p) == Len(p) <= Len(s) /\ SubSeq(s, Len(s) - Len(p) + 1, Len(s)) = p

\* Schema type keywords
kwObject == <<"o","b","j","e","c","t">>
kwArray == <<"a","r","r","a","y">>
kwString == <<"s","t","r","i","n","g">>
kwBoolean == <<"b","o","o","l","e","a","n">>
kwDate == <<"d","a","t","e">>
kwNumber == <<"n","u","m","b","e","r">>
kwInteger == <<"i","n","t","e","g","e","r">>

\* Format tags
fmtDateTime == <<"d","a","t","e","-","t","i","m","e">>
fmtFloat == <<"f","l","o","a","t">>
fmtDouble == <<"d","o","u","b","l","e">>
fmtInt == <<"i","n","t">>
fmtUint == <<"u","i","n","t">>
Widths == << <<"8">>, <<"1","6">>, <<"3","2">>, <<"6","4">>, <<"1","2","8">> >>

\* Output type text
tyString == <<"S","t","r","i","n","g">>
tyBool == <<"b","o","o","l">>
tyIntOrString == <<"I","n","t","O","r","S","t","r","i","n","g">>
tyValue == <<"s","e","r","d","e","_","j","s","o","n",":",":","V","a","l","u","e">>
tyNaiveDate == <<"N","a","i","v","e","D","a","t","e">>
tyDateTimeUtc == <<"D","a","t","e","T","i","m","e","<","U","t","c",">">>
tyF32 == <<"f","3","2">>
tyF64 == <<"f","6","4">>
tyI64 == <<"i","6","4">>
pfxOption == <<"O","p","t","i","o","n","<">>
pfxVec == <<"V","e","c","<">>
pfxBTreeMap == <<"B","T","r","e","e","M","a","p","<","S","t","r","i","n","g",","," ">>
sfxClose == <<">">>

IGNORED_KEYS == { <<"m","e","t","a","d","a","t","a">>,
                  <<"a","p","i","V","e","r","s","i","o","n">>,
                  <<"k","i","n","d">> }

SerdeSkipNone == "#[serde(default, skip_serializing_if = \"Option::is_none\")]"

\* ------------------------------------------------------------------------
\* Result<T>

Ok(v) == [ok |-> TRUE, val |-> v]
Err(msg) == [ok |-> FALSE, err |-> msg]

\* ------------------------------------------------------------------------
\* Scalar format helpers

extract_date_type(value) ==
    IF is_some(value.format)
    THEN LET f == value.format[1] IN
         IF f = kwDate THEN Ok(tyNaiveDate)
         ELSE IF f = fmtDateTime THEN Ok(tyDateTimeUtc)
         ELSE Err("unknown date")
    ELSE Ok(tyString)

extract_number_type(value) ==
    IF is_some(value.format)
    THEN LET f == value.format[1] IN
         IF f = fmtFloat THEN Ok(tyF32)
         ELSE IF f = fmtDouble THEN Ok(tyF64)
         ELSE Err("unknown number")
    ELSE Ok(tyF64)

\* The match arms of extract_integer_type: <<format, type>>.
IntegerFormats ==
    { <<fmtInt \o Widths[i], <<"i">> \o Widths[i]>> : i \in 1..Len(Widths) }
    \cup { <<fmtUint \o Widths[i], <<"u">> \o Widths[i]>> : i \in 1..Len(Widths) }

extract_integer_type(value) ==
    IF is_some(value.format)
    THEN LET f == value.format[1] IN
         IF \E arm \in IntegerFormats : arm[1] = f
         THEN Ok((CHOOSE arm \in IntegerFormats : arm[1] = f)[2])
         ELSE Err("unknown integer")
    ELSE Ok(tyI64)

\* ------------------------------------------------------------------------
\* Array unwrapper

RECURSIVE array_recurse_for_type(_, _, _, _)
array_recurse_for_type(value, stack, key, level) ==
    IF is_some(value.items)
    THEN LET items == value.items[1] IN
         IF items.tag = "Schema"
         THEN LET s == items.schema
                  inner_array_type == unwrap_or_default(s.type_)
                  date == extract_date_type(value)
                  number == extract_number_type(value)
                  integer == extract_integer_type(value)
              IN
              IF inner_array_type = kwObject
              THEN Ok(<<pfxVec \o stack \o uppercase_first_letter(key) \o sfxClose, level>>)
              ELSE IF inner_array_type = kwString
              THEN Ok(<<pfxVec \o tyString \o sfxClose, level>>)
              ELSE IF inner_array_type = kwBoolean
              THEN Ok(<<pfxVec \o tyBool \o sfxClose, level>>)
              ELSE IF inner_array_type = kwDate
              THEN IF date.ok THEN Ok(<<pfxVec \o date.val \o sfxClose, level>>) ELSE date
              ELSE IF inner_array_type = kwNumber
              THEN IF number.ok THEN Ok(<<pfxVec \o number.val \o sfxClose, level>>) ELSE number
              ELSE IF inner_array_type = kwInteger
              THEN IF integer.ok THEN Ok(<<pfxVec \o integer.val \o sfxClose, level>>) ELSE integer
              ELSE IF inner_array_type = kwArray
              THEN array_recurse_for_type(s, stack, key, level + 1)
              ELSE Err("unsupported recursive array type")
         ELSE Err("only support single schema in array")
    ELSE Err("missing items in array type")

\* ------------------------------------------------------------------------
\* Member resolver

\* The map value type of an object property (lines 142-176): Ok(None) when the
\* property is no map, Ok(Some(value type)) when it is one.
dict_key(key, value, stack) ==
    IF is_some(value.additional_properties)
    THEN LET additional == value.additional_properties[1] IN
         IF additional.tag = "Schema"
         THEN LET s == additional.schema
                  dict_type == unwrap_or_default(s.type_)
              IN
              IF dict_type = kwString THEN Ok(Some(tyString))
              ELSE IF dict_type = kwArray
              THEN Ok(Some(stack \o uppercase_first_letter(key)))
              ELSE IF dict_type = kwObject
              THEN Ok(Some(stack \o uppercase_first_letter(key)))
              ELSE IF dict_type = <<>>
              THEN IF is_some(s.x_kubernetes_int_or_string)
                   THEN Ok(Some(tyIntOrString))
                   ELSE Err("unknown empty dict type")
              ELSE Ok(Some(uppercase_first_letter(dict_type)))
         ELSE Ok(None)
    ELSE IF is_none(value.properties)
            /\ unwrap_or_false(value.x_kubernetes_preserve_unknown_fields)
    THEN Ok(Some(tyValue))
    ELSE Ok(None)

\* The match on value_type (lines 139-206): Ok([type_, recurse]) where recurse
\* is Some(depth) for an array (the entry inserted into array_recurse_level).
rust_type(key, value, stack) ==
    LET value_type == unwrap_or_default(value.type_) IN
    IF value_type = kwObject
    THEN LET dict == dict_key(key, value, stack) IN
         IF ~dict.ok THEN dict
         ELSE IF is_some(dict.val)
         THEN Ok([type_ |-> pfxBTreeMap \o dict.val[1] \o sfxClose, recurse |-> None])
         ELSE Ok([type_ |-> stack \o uppercase_first_letter(key), recurse |-> None])
    ELSE IF value_type = kwString THEN Ok([type_ |-> tyString, recurse |-> None])
    ELSE IF value_type = kwBoolean THEN Ok([type_ |-> tyBool, recurse |-> None])
    ELSE IF value_type = kwDate
    THEN LET r == extract_date_type(value) IN
         IF r.ok THEN Ok([type_ |-> r.val, recurse |-> None]) ELSE r
    ELSE IF value_type = kwNumber
    THEN LET r == extract_number_type(value) IN
         IF r.ok THEN Ok([type_ |-> r.val, recurse |-> None]) ELSE r
    ELSE IF value_type = kwInteger
    THEN LET r == extract_integer_type(value) IN
         IF r.ok THEN Ok([type_ |-> r.val, recurse |-> None]) ELSE r
    ELSE IF value_type = kwArray
    THEN LET r == array_recurse_for_type(value, stack, key, 1) IN
         IF r.ok THEN Ok([type_ |-> r.val[1], recurse |-> Some(r.val[2])]) ELSE r
    ELSE IF value_type = <<>>
    THEN IF is_some(value.x_kubernetes_int_or_string)
         THEN Ok([type_ |-> tyIntOrString, recurse |-> None])
         ELSE Err("unknown empty dict type")
    ELSE Err("unknown type")

\* Lines 208-227: the member, Option-wrapped unless reqs.contains(key).
OutputMember(key, ty, reqs) ==
    IF \E i \in 1..Len(reqs) : reqs[i] = key
    THEN [type_ |-> ty, name |-> key, field_annot |-> None]
    ELSE [type_ |-> pfxOption \o ty \o sfxClose, name |-> key,
          field_annot |-> Some(SerdeSkipNone)]

\* `for (key, value) in props` over a BTreeMap<String, _>: the keys in
\* ascending String order.
RECURSIVE BTreeMapKeysOf(_)
BTreeMapKeysOf(keys) ==
    IF keys = {} THEN <<>>
    ELSE LET least == CHOOSE k \in keys : \A o \in keys \ {k} : StrLess(k, o)
         IN <<least>> \o BTreeMapKeysOf(keys \ {least})

\* Faulty variant: the properties are visited in descending key order.
RECURSIVE DescendingKeysOf(_)
DescendingKeysOf(keys) ==
    IF keys = {} THEN <<>>
    ELSE LET most == CHOOSE k \in keys : \A o \in keys \ {k} : StrLess(o, k)
         IN <<most>> \o DescendingKeysOf(keys \ {most})
BTreeMapKeysDescending(props) == DescendingKeysOf(DOMAIN props)

BTreeMapKeys(props) == BTreeMapKeysOf(DOMAIN props)

\* HashMap::insert
Insert(map, k, v) == [x \in DOMAIN map \cup {k} |-> IF x = k THEN v ELSE map[x]]

\* The loop of analyze_object_properties (lines 138-228) from `keys` on; stops
\* at the first bail!/? with the error.
RECURSIVE resolve_members(_, _, _, _, _, _)
resolve_members(keys, props, stack, reqs, members, array_recurse_level) ==
    IF keys = <<>>
    THEN Ok([members |-> members, array_recurse_level |-> array_recurse_level])
    ELSE LET key == Head(keys)
             r == rust_type(key, props[key], stack)
         IN
         IF ~r.ok THEN r
         ELSE resolve_members(
                Tail(keys), props, stack, reqs,
                Append(members, OutputMember(key, r.val.type_, reqs)),
                IF is_some(r.val.recurse)
                THEN Insert(array_recurse_level, key, r.val.recurse[1])
                ELSE array_recurse_level)

\* Ok([results, array_recurse_level]): the one struct and the updated table.
analyze_object_properties(props, stack, array_recurse_level, level, schema) ==
    LET reqs == unwrap_or_default(schema.required)
        r == resolve_members(BTreeMapKeys(props), props, stack, reqs, <<>>,
                             array_recurse_level)
    IN
    IF ~r.ok THEN r
    ELSE Ok([results |-> << [name |-> stack, members |-> r.val.members,
                             level |-> level] >>,
             array_recurse_level |-> r.val.array_recurse_level])

\* ------------------------------------------------------------------------
\* Input schemas (JSONSchemaProps values)

JSONSchemaProps ==
    [type_ |-> None, properties |-> None, additional_properties |-> None,
     items |-> None, required |-> None, format |-> None,
     x_kubernetes_preserve_unknown_fields |-> None,
     x_kubernetes_int_or_string |-> None]

\* JSONSchemaPropsOrBool and JSONSchemaPropsOrArray
PropsOrBoolSchema(s) == [tag |-> "Schema", schema |-> s]
PropsOrBoolBool(b) == [tag |-> "Bool", bool |-> b]
PropsOrArraySchema(s) == [tag |-> "Schema", schema |-> s]
PropsOrArraySchemas(ss) == [tag |-> "Schemas", schemas |-> ss]

Typed(t) == [JSONSchemaProps EXCEPT !.type_ = Some(t)]
Formatted(t, f) == [JSONSchemaProps EXCEPT !.type_ = Some(t), !.format = Some(f)]
Object(props, req) ==
    [JSONSchemaProps EXCEPT !.type_ = Some(kwObject), !.properties = Some(props),
                            !.required = req]
MapOf(s, req) ==
    [JSONSchemaProps EXCEPT !.type_ = Some(kwObject), !.required = req,
                            !.additional_properties = Some(PropsOrBoolSchema(s))]
ArrayOf(s) ==
    [JSONSchemaProps EXCEPT !.type_ = Some(kwArray),
                            !.items = Some(PropsOrArraySchema(s))]
RECURSIVE ArrayNest(_, _)
ArrayNest(d, s) == IF d = 0 THEN s ELSE ArrayOf(ArrayNest(d - 1, s))

\* Bounds of the input space
MaxArrayDepth == 2
MaxLevel == 1

\* Property keys
kId == <<"i","d">>
kTo == <<"t","o">>
kKind == <<"k","i","n","d">>
kKinds == <<"k","i","n","d","s">>
kMetadata == <<"m","e","t","a","d","a","t","a">>
kApiVersion == <<"a","p","i","V","e","r","s","i","o","n">>
fmtInt32 == <<"i","n","t","3","2">>
fmtInt7 == <<"i","n","t","7">>
StackSeed == <<"S">>

StringSchema == Typed(kwString)
\* items: [a, b] (tuple validation)
TupleArray ==
    [JSONSchemaProps EXCEPT !.type_ = Some(kwArray),
        !.items = Some(PropsOrArraySchemas(<<Typed(kwString), Typed(kwInteger)>>))]
PreserveUnknown ==
    [JSONSchemaProps EXCEPT !.type_ = Some(kwObject),
                            !.x_kubernetes_preserve_unknown_fields = Some(TRUE)]
IntOrString(marker) == [JSONSchemaProps EXCEPT !.x_kubernetes_int_or_string = marker]

\* Objects with properties, used as nested objects and as array or map items.
ItemRequired == Object(kId :> StringSchema, Some(<<kId>>))
ItemOptional == Object(kId :> StringSchema, None)
ItemObjects ==
    { ItemRequired, ItemOptional,
      Object(kKind :> ItemOptional, None),
      Object(kId :> TupleArray, None),
      Object(kId :> PreserveUnknown, Some(<<kId>>)) }

\* Maps whose value schema declares properties; `required` of the value schema
\* and of the map node vary independently.
MapsOfStruct ==
    { MapOf(ItemRequired, None), MapOf(ItemOptional, Some(<<kId>>)),
      MapOf(ItemOptional, None), MapOf(Object(kKind :> ItemOptional, None), None) }

\* Arrays whose innermost items are date, number or integer scalars, with the
\* format tag on the item schema, on the array node, or absent.
ScalarArrays ==
    { ArrayOf(Typed(kwInteger)),
      ArrayOf(Formatted(kwInteger, fmtInt32)),
      ArrayOf(Formatted(kwInteger, fmtInt7)),
      [ArrayOf(Typed(kwInteger)) EXCEPT !.format = Some(fmtInt32)],
      ArrayOf(Formatted(kwNumber, fmtFloat)),
      ArrayOf(Formatted(kwDate, fmtDateTime)),
      ArrayNest(2, Formatted(kwInteger, fmtInt32)) }

\* The schemas a root property can have.
PropertySchemas ==
    { StringSchema, Typed(kwInteger), Formatted(kwInteger, fmtInt32),
      Formatted(kwInteger, fmtInt7),
      IntOrString(None), IntOrString(Some(TRUE)), IntOrString(Some(FALSE)),
      MapOf(StringSchema, None), MapOf(Typed(kwInteger), None),
      [JSONSchemaProps EXCEPT !.type_ = Some(kwObject),
                              !.additional_properties = Some(PropsOrBoolBool(TRUE))],
      MapOf(ArrayOf(ItemRequired), None), MapOf(ArrayOf(ItemOptional), None),
      MapOf(TupleArray, None),
      PreserveUnknown,
      [PreserveUnknown EXCEPT !.properties = Some(<<>>)],
      Typed(kwObject),
      TupleArray, ArrayOf(TupleArray), Typed(kwArray) }
    \cup ItemObjects
    \cup MapsOfStruct
    \cup ScalarArrays
    \cup { ArrayNest(d, ItemRequired) : d \in 1..MaxArrayDepth }
    \cup { ArrayNest(d, StringSchema) : d \in 1..MaxArrayDepth }

KeyPairs == { <<kKind, kKinds>>, <<kMetadata, kTo>> }

RootSchemas ==
    { Object(kApiVersion :> c, req) :
        c \in PropertySchemas, req \in {None, Some(<<kApiVersion>>)} }
    \cup UNION { { Object(p[1] :> c1 @@ p[2] :> c2, req) :
                     c1 \in PropertySchemas, c2 \in PropertySchemas,
                     req \in {None, Some(<<p[2]>>)} } : p \in KeyPairs }
    \cup MapsOfStruct

\* ------------------------------------------------------------------------
\* analyze: the structure walker, one call frame per invocation

VARIABLES
    root,      \* the arguments of the outermost call: [schema, stack, level]
    frames,    \* the call stack of analyze
    results,   \* results: &mut Vec<OutputStruct>
    origin,    \* history: for each element of results, the call that appended it
    status,    \* "run", or the outcome of the outermost call: "ok" / "err"
    error      \* the message of the bail! that ended the call

vars == <<root, frames, results, origin, status, error>>

\* One invocation of analyze: its arguments, where it stands (pc "head": lines
\* 25-57, "loop": lines 60-123 with `todo` the keys still to visit) and its
\* array_recurse_level. History fields: `path`, the property keys from the root
\* to this call, and `from`, the caller's [value, stack, level] for the property
\* that led here (None in the outermost call).
Frame(schema, stack, level, path, from) ==
    [schema |-> schema, stack |-> stack, level |-> level, path |-> path,
     from |-> from, pc |-> "head", todo |-> <<>>, array_recurse_level |-> <<>>]

Top == frames[Len(frames)]
Props(f) == unwrap_or_default(f.schema.properties)
IsObject(schema) == unwrap_or_default(schema.type_) = kwObject
HasSchemaAdditional(schema) ==
    /\ is_some(schema.additional_properties)
    /\ schema.additional_properties[1].tag = "Schema"
Additional(schema) == schema.additional_properties[1].schema

Init ==
    /\ root \in [schema : RootSchemas, stack : {StackSeed}, level : 0..MaxLevel]
    /\ frames = << Frame(root.schema, root.stack, root.level, <<>>, None) >>
    /\ results = <<>>
    /\ origin = <<>>
    /\ status = "run"
    /\ error = ""

Running == status = "run" /\ frames # <<>>

\* Faulty variant: the struct of the failing node is pushed before its members are
\* resolved.
FailAfterPush(msg) ==
    /\ status' = "err"
    /\ error' = msg
    /\ frames' = <<>>
    /\ results' = Append(results, [name |-> Top.stack, members |-> <<>>,
                                   level |-> Top.level])
    /\ origin' = Append(origin, [path |-> Top.path, node |-> Top.schema,
                                 stack |-> Top.stack, level |-> Top.level,
                                 from |-> Top.from])
    /\ UNCHANGED root

\* `?` / bail!: the error unwinds every frame; results keeps what it holds.
Fail(msg) ==
    /\ status' = "err"
    /\ error' = msg
    /\ frames' = <<>>
    /\ UNCHANGED <<root, results, origin>>

\* return Ok(()) of the top frame
Return ==
    /\ frames' = SubSeq(frames, 1, Len(frames) - 1)
    /\ status' = IF Len(frames) = 1 THEN "ok" ELSE "run"
    /\ UNCHANGED <<root, results, origin, error>>

\* results.extend(new_result) and on to the property loop (lines 38-40, 53-55)
Extend(r) ==
    IF r.ok
    THEN /\ results' = results \o r.val.results
         /\ origin' = Append(origin, [path |-> Top.path, node |-> Top.schema,
                                      stack |-> Top.stack, level |-> Top.level,
                                      from |-> Top.from])
         /\ frames' = [frames EXCEPT ![Len(frames)] =
                         [@ EXCEPT !.pc = "loop",
                                   !.todo = BTreeMapKeys(Props(Top)),
                                   !.array_recurse_level = r.val.array_recurse_level]]
         /\ UNCHANGED <<root, status, error>>
    ELSE Fail(r.err)

\* Faulty variant: the map struct is built from the map node's own properties.
GenerateMapStructOwnProperties ==
    /\ Running /\ Top.pc = "head"
    /\ IsObject(Top.schema) /\ HasSchemaAdditional(Top.schema)
    /\ is_some(Additional(Top.schema).properties)
    /\ Extend(analyze_object_properties(Props(Top),
                  Top.stack, Top.array_recurse_level, Top.level, Top.schema))

\* lines 32-40: an object whose additionalProperties schema declares properties
GenerateMapStruct ==
    /\ Running /\ Top.pc = "head"
    /\ IsObject(Top.schema) /\ HasSchemaAdditional(Top.schema)
    /\ is_some(Additional(Top.schema).properties)
    /\ Extend(analyze_object_properties(Additional(Top.schema).properties[1],
                  Top.stack, Top.array_recurse_level, Top.level, Top.schema))

\* lines 41-44: a map of a typed value without properties is inlined
InlineMap ==
    /\ Running /\ Top.pc = "head"
    /\ IsObject(Top.schema) /\ HasSchemaAdditional(Top.schema)
    /\ is_none(Additional(Top.schema).properties)
    /\ unwrap_or_default(Additional(Top.schema).type_) # <<>>
    /\ Return

\* lines 49-52
InlinePreserveUnknown ==
    /\ Running /\ Top.pc = "head"
    /\ IsObject(Top.schema) /\ ~HasSchemaAdditional(Top.schema)
    /\ Props(Top) = <<>>
    /\ unwrap_or_false(Top.schema.x_kubernetes_preserve_unknown_fields)
    /\ Return

\* lines 45-56: regular properties
GenerateStruct ==
    /\ Running /\ Top.pc = "head"
    /\ IsObject(Top.schema) /\ ~HasSchemaAdditional(Top.schema)
    /\ ~(Props(Top) = <<>>
         /\ unwrap_or_false(Top.schema.x_kubernetes_preserve_unknown_fields))
    /\ Extend(analyze_object_properties(Props(Top), Top.stack,
                  Top.array_recurse_level, Top.level, Top.schema))

\* line 29 false, or line 41 false: nothing generated, on to the loop
NoStruct ==
    /\ Running /\ Top.pc = "head"
    /\ \/ ~IsObject(Top.schema)
       \/ /\ HasSchemaAdditional(Top.schema)
          /\ is_none(Additional(Top.schema).properties)
          /\ unwrap_or_default(Additional(Top.schema).type_) = <<>>
    /\ frames' = [frames EXCEPT ![Len(frames)] =
                    [@ EXCEPT !.pc = "loop", !.todo = BTreeMapKeys(Props(Top))]]
    /\ UNCHANGED <<root, results, origin, status, error>>

InLoop == Running /\ Top.pc = "loop" /\ Top.todo # <<>>
Key == Head(Top.todo)
Value == Props(Top)[Key]

\* Faulty variant: the reserved keys are skipped at every level.
IsIgnoredAtAnyLevel(level, key) == key \in IGNORED_KEYS

\* line 61
IsIgnored(level, key) == level = 0 /\ key \in IGNORED_KEYS

\* the caller's frame once the iteration for Key is over
Advanced == [frames EXCEPT ![Len(frames)] = [@ EXCEPT !.todo = Tail(@)]]

\* analyze(schema, &next_key, &next_stack, level + 1, results)?
\* level is a u8: the nesting of the inputs keeps it far below 255.
Recurse(schema) ==
    /\ frames' = Append(Advanced,
                        Frame(schema, Top.stack \o uppercase_first_letter(Key),
                              Top.level + 1, Append(Top.path, Key),
                              Some([value |-> Value, stack |-> Top.stack,
                                    level |-> Top.level])))
    /\ UNCHANGED <<root, results, origin, status, error>>

Continue ==
    /\ frames' = Advanced
    /\ UNCHANGED <<root, results, origin, status, error>>

\* lines 61-64
SkipIgnored ==
    /\ InLoop
    /\ IsIgnored(Top.level, Key)
    /\ Continue

\* Faulty variant: the array wrap of a map value is never unpacked.
MapArrayItemsNever(value) == None

\* lines 72-80: Some(items) when the value is a map of arrays of one schema
MapArrayItems(value) ==
    IF /\ HasSchemaAdditional(value)
       /\ unwrap_or_default(Additional(value).type_) = kwArray
       /\ is_some(Additional(value).items)
       /\ Additional(value).items[1].tag = "Schema"
    THEN Some(Additional(value).items[1].schema)
    ELSE None

\* lines 69-93
RecurseObject ==
    /\ InLoop
    /\ ~IsIgnored(Top.level, Key)
    /\ unwrap_or_default(Value.type_) = kwObject
    /\ IF is_some(MapArrayItems(Value))
       THEN Recurse(MapArrayItems(Value)[1])
       ELSE Recurse(Value)

\* Faulty variant: the replay stops one hop short (`for _i in 1..recurse`).
RECURSIVE ReplayItemsShort(_, _)
ReplayItemsShort(inner, recurse) ==
    IF recurse <= 1 THEN Ok(inner)
    ELSE IF is_some(inner.items)
    THEN IF inner.items[1].tag = "Schema"
         THEN ReplayItemsShort(inner.items[1].schema, recurse - 1)
         ELSE Err("only handling single type in arrays")
    ELSE Err("could not recurse into vec")

\* lines 96-110: `recurse` item hops from value
RECURSIVE ReplayItems(_, _)
ReplayItems(inner, recurse) ==
    IF recurse = 0 THEN Ok(inner)
    ELSE IF is_some(inner.items)
    THEN IF inner.items[1].tag = "Schema"
         THEN ReplayItems(inner.items[1].schema, recurse - 1)
         ELSE Err("only handling single type in arrays")
    ELSE Err("could not recurse into vec")

\* lines 94-113
RecurseArray ==
    /\ InLoop
    /\ ~IsIgnored(Top.level, Key)
    /\ unwrap_or_default(Value.type_) = kwArray
    /\ IF Key \in DOMAIN Top.array_recurse_level
       THEN LET inner == ReplayItems(Value, Top.array_recurse_level[Key]) IN
            IF inner.ok THEN Recurse(inner.val) ELSE Fail(inner.err)
       ELSE Continue

\* lines 114-121
SkipLeaf ==
    /\ InLoop
    /\ ~IsIgnored(Top.level, Key)
    /\ unwrap_or_default(Value.type_) \notin {kwObject, kwArray}
    /\ Continue

\* line 124
ReturnOk ==
    /\ Running /\ Top.pc = "loop" /\ Top.todo = <<>>
    /\ Return

Next ==
    \/ GenerateMapStruct
    \/ InlineMap
    \/ InlinePreserveUnknown
    \/ GenerateStruct
    \/ NoStruct
    \/ SkipIgnored
    \/ RecurseObject
    \/ RecurseArray
    \/ SkipLeaf
    \/ ReturnOk

Spec == Init /\ [][Next]_vars

\* ------------------------------------------------------------------------
\* Vocabulary of the properties

Contains(seq, x) == \E i \in 1..Len(seq) : seq[i] = x
IsOptional(ty) == StartsWith(ty, pfxOption) /\ EndsWith(ty, sfxClose)
Unwrapped(ty) ==
    IF IsOptional(ty) THEN SubSeq(ty, Len(pfxOption) + 1, Len(ty) - 1) ELSE ty
MappingOf(ty) == pfxBTreeMap \o ty \o sfxClose
SequenceOf(ty) == pfxVec \o ty \o sfxClose

\* A map whose value schema declares properties (spec: map-of-struct).
IsMapOfStruct(node) ==
    /\ IsObject(node) /\ HasSchemaAdditional(node)
    /\ is_some(Additional(node).properties)
\* The schema that declares the properties a struct of `node` is built from.
DeclaringSchema(node) == IF IsMapOfStruct(node) THEN Additional(node) ELSE node
DeclaredProperties(node) == unwrap_or_default(DeclaringSchema(node).properties)

Structs == 1..Len(results)
MembersOf(i) == 1..Len(results[i].members)
MemberNames(i) == { results[i].members[j].name : j \in MembersOf(i) }

\* The name stack of the node reached from the root by the keys of `path`.
RECURSIVE StackOf(_)
StackOf(path) ==
    IF path = <<>> THEN root.stack
    ELSE StackOf(SubSeq(path, 1, Len(path) - 1))
         \o uppercase_first_letter(path[Len(path)])

\* C1: every member of every emitted struct is Option-wrapped iff its key is
\* absent from the required list of the schema that declares the property
\* (for a map-of-struct, the additionalProperties schema).
C1_OptionalIffNotRequired ==
    \A i \in Structs : \A j \in MembersOf(i) :
        LET m == results[i].members[j]
            reqs == unwrap_or_default(DeclaringSchema(origin[i].node).required)
        IN IsOptional(m.type_) <=> ~Contains(reqs, m.name)

\* C2: every emitted struct has exactly one member per declared property, the
\* members in strictly ascending String order of their names.
C2_MembersSortedOnePerProperty ==
    \A i \in Structs :
        LET ms == results[i].members IN
        /\ Len(ms) = Cardinality(DOMAIN DeclaredProperties(origin[i].node))
        /\ MemberNames(i) = DOMAIN DeclaredProperties(origin[i].node)
        /\ \A j, k \in MembersOf(i) : j < k => StrLess(ms[j].name, ms[k].name)

C2_Witness ==
    \E i \in Structs :
        /\ Len(results[i].members) = 2
        /\ results[i].members[1].name = kMetadata
        /\ results[i].members[2].name = kTo

\* C3: a member whose property is a map of integers without format has the
\* type BTreeMap<String, i64> (inside Option<> when not required).
IsIntegerMap(v) ==
    /\ IsObject(v) /\ HasSchemaAdditional(v)
    /\ Additional(v).type_ = Some(kwInteger)
    /\ is_none(Additional(v).format)
C3_IntegerMapIsI64 ==
    \A i \in Structs : \A j \in MembersOf(i) :
        LET m == results[i].members[j]
            v == DeclaredProperties(origin[i].node)[m.name]
        IN IsIntegerMap(v) => Unwrapped(m.type_) = MappingOf(tyI64)

IsArray(v) == unwrap_or_default(v.type_) = kwArray
HasSingleItems(v) == is_some(v.items) /\ v.items[1].tag = "Schema"
ItemsOf(v) == v.items[1].schema
Untyped(v) == unwrap_or_default(v.type_) = <<>>
HasProperties(v) == is_some(v.properties)

StructsNamed(n) == { x \in Structs : results[x].name = n }
StructsAt(path) == { x \in Structs : origin[x].path = path }
MemberFor(i, k) ==
    results[i].members[CHOOSE j \in MembersOf(i) : results[i].members[j].name = k]
\* The struct is built from the node's own properties, the ones the walker visits.
OwnStruct(i) == ~IsMapOfStruct(origin[i].node)
IsReservedAt(level, k) == level = 0 /\ k \in IGNORED_KEYS
\* The members of struct x are the properties of `schema`, optional by its
\* required list.
MembersFrom(x, schema) ==
    /\ MemberNames(x) = DOMAIN unwrap_or_default(schema.properties)
    /\ Len(results[x].members) = Cardinality(MemberNames(x))
    /\ \A j \in MembersOf(x) :
         IsOptional(results[x].members[j].type_)
         <=> ~Contains(unwrap_or_default(schema.required), results[x].members[j].name)

\* C4: for a property k, of an object analysed with stack S at level L, that is a
\* map of arrays of one object schema with properties, the member k is
\* BTreeMap<String, S+Cap(k)> and, once a call that recurses into k (k no reserved
\* key at level 0) has returned Ok, results holds exactly one struct named
\* S+Cap(k): at level L+1, built from the item schema's properties and required
\* list, and nothing was emitted for the map wrapper or the array layer.
IsMapOfObjectArrays(v) ==
    /\ IsObject(v) /\ HasSchemaAdditional(v)
    /\ IsArray(Additional(v)) /\ HasSingleItems(Additional(v))
    /\ IsObject(ItemsOf(Additional(v))) /\ HasProperties(ItemsOf(Additional(v)))
IsPreservedEmptyObject(v) ==
    /\ IsObject(v) /\ is_none(v.additional_properties)
    /\ unwrap_or_default(v.properties) = <<>>
    /\ v.x_kubernetes_preserve_unknown_fields = Some(TRUE)
C5_PreserveUnknownIsGenericMap ==
    \A i \in Structs : \A k \in DOMAIN DeclaredProperties(origin[i].node) :
        IsPreservedEmptyObject(DeclaredProperties(origin[i].node)[k]) =>
            /\ Unwrapped(MemberFor(i, k).type_) = MappingOf(tyValue)
            /\ StructsAt(Append(origin[i].path, k)) = {}

\* C6: a property without declared type yields a member only when its
\* int-or-string marker is true (otherwise analyze fails before the struct is
\* emitted), the member is IntOrString, and no call is made for the property.
C6_UnionIffMarkerSet ==
    \A i \in Structs : \A k \in DOMAIN DeclaredProperties(origin[i].node) :
        LET v == DeclaredProperties(origin[i].node)[k] IN
        Untyped(v) =>
            /\ v.x_kubernetes_int_or_string = Some(TRUE)
            /\ Unwrapped(MemberFor(i, k).type_) = tyIntOrString
            /\ StructsAt(Append(origin[i].path, k)) = {}
            /\ \A f \in 1..Len(frames) : frames[f].path # Append(origin[i].path, k)

\* C7: a call of analyze with stack S and level L on an object whose
\* additionalProperties schema declares properties appends exactly one struct
\* for the node: named S (the name the map member's type refers to), of level L,
\* its members the properties of the additionalProperties schema.
C7_MapStructNamedByStack ==
    /\ \A i \in Structs :
         IsMapOfStruct(origin[i].node) =>
           /\ results[i].name = origin[i].stack
           /\ results[i].level = origin[i].level
           /\ MemberNames(i) = DOMAIN Additional(origin[i].node).properties[1]
           /\ Len(results[i].members) = Cardinality(MemberNames(i))
           /\ StructsAt(origin[i].path) = {i}
           /\ (is_some(origin[i].from) /\ origin[i].from[1].value = origin[i].node) =>
                \A p \in StructsAt(SubSeq(origin[i].path, 1, Len(origin[i].path) - 1)) :
                    Unwrapped(MemberFor(p, origin[i].path[Len(origin[i].path)]).type_)
                    = MappingOf(results[i].name)
    /\ \A f \in 1..Len(frames) :
         (IsMapOfStruct(frames[f].schema) /\ frames[f].pc = "loop") =>
             StructsAt(frames[f].path) # {}
    /\ (status = "ok" /\ IsMapOfStruct(root.schema)) => StructsAt(<<>>) # {}

C7_Witness ==
    /\ status = "ok"
    /\ \E i, p \in Structs :
         /\ IsMapOfStruct(origin[i].node)
         /\ origin[i].path = <<kTo>>
         /\ origin[p].path = <<>>
         /\ results[i].name = StackSeed \o <<"T","o">>
         /\ MemberNames(i) = {kId}

\* C8: for an array property k, of an object analysed with stack S at level L,
\* whose items lead after n >= 1 hops to an object: the member k is
\* Vec<S+Cap(k)>, the table holds n, the call the walker makes for k is on the
\* schema n item hops below the property, with stack S+Cap(k) and level L+1, the
\* struct of that schema carries that name and level, and the replay never fails.
RECURSIVE ReachesObject(_)
ReachesObject(v) ==
    /\ IsArray(v) /\ HasSingleItems(v)
    /\ \/ IsObject(ItemsOf(v))
       \/ IsArray(ItemsOf(v)) /\ ReachesObject(ItemsOf(v))
RECURSIVE Hops(_)
Hops(v) == IF IsArray(ItemsOf(v)) THEN 1 + Hops(ItemsOf(v)) ELSE 1
RECURSIVE NthItem(_, _)
NthItem(v, n) == IF n = 0 THEN v ELSE NthItem(ItemsOf(v), n - 1)
Last(path) == path[Len(path)]
ReplayErrors == {"only handling single type in arrays", "could not recurse into vec"}

RECURSIVE IsTupleArray(_)
IsTupleArray(v) ==
    /\ IsArray(v) /\ is_some(v.items)
    /\ \/ v.items[1].tag = "Schemas"
       \/ /\ v.items[1].tag = "Schema" /\ IsTupleArray(ItemsOf(v))
UnsupportedArrayShape == "only support single schema in array"
ResolvesProperties(f) ==
    /\ f.pc = "head" /\ IsObject(f.schema)
    /\ IsMapOfStruct(f.schema) \/ ~HasSchemaAdditional(f.schema)
TupleArrayMet(f) ==
    LET props == DeclaredProperties(f.schema) IN
    \E k \in DOMAIN props :
        /\ IsTupleArray(props[k])
        /\ \A o \in DOMAIN props : StrLess(o, k) => rust_type(o, props[o], f.stack).ok

ReservedKept ==
    \A i \in Structs :
        (origin[i].level = 0 /\ OwnStruct(i)) =>
            \A k \in IGNORED_KEYS \cap DOMAIN DeclaredProperties(origin[i].node) :
                k \in MemberNames(i)
\* An object property with properties of its own: a call on it emits a struct.
IsPlainObject(v) ==
    /\ IsObject(v) /\ is_none(v.additional_properties)
    /\ unwrap_or_default(v.properties) # <<>>
RecursedUnlessReservedAtRoot ==
    status = "ok" =>
        \A i \in Structs : \A k \in DOMAIN DeclaredProperties(origin[i].node) :
            (OwnStruct(i) /\ IsPlainObject(DeclaredProperties(origin[i].node)[k])) =>
                ( (\E x \in StructsAt(Append(origin[i].path, k)) :
                      /\ results[x].name = results[i].name \o uppercase_first_letter(k)
                      /\ results[x].level = results[i].level + 1)
                  <=> ~(results[i].level = 0 /\ k \in IGNORED_KEYS) )
C10_NoStructNamedAfterReservedKey ==
    /\ ReservedKept
    /\ RecursedUnlessReservedAtRoot
    /\ root.level = 0 =>
         \A k \in IGNORED_KEYS \cap DOMAIN unwrap_or_default(root.schema.properties) :
             \A x \in Structs :
                 ~StartsWith(results[x].name, root.stack \o uppercase_first_letter(k))

\* C10 amended: the same, with "no struct is emitted, and no call made, for a
\* reserved key of the level 0 call or for anything below it".
C10_NoStructFromReservedKey ==
    /\ ReservedKept
    /\ RecursedUnlessReservedAtRoot
    /\ root.level = 0 =>
         /\ \A x \in Structs :
              origin[x].path # <<>> => origin[x].path[1] \notin IGNORED_KEYS
         /\ \A f \in 1..Len(frames) :
              frames[f].path # <<>> => frames[f].path[1] \notin IGNORED_KEYS

C10_Witness ==
    /\ status = "ok" /\ root.level = 0
    /\ ~HasSchemaAdditional(root.schema)
    /\ {kKind, kKinds} \subseteq DOMAIN DeclaredProperties(root.schema)
    /\ DeclaredProperties(root.schema)[kKind] = ItemRequired
    /\ DeclaredProperties(root.schema)[kKinds] = Object(kKind :> ItemOptional, None)
    /\ \E i \in StructsAt(<<>>) : kKind \in MemberNames(i)
    /\ StructsAt(<<kKind>>) = {}
    /\ StructsAt(<<kKinds, kKind>>) # {}

\* ------------------------------------------------------------------------
\* C11: for an array property whose innermost item schema (after unwrapping
\* nested single-schema arrays) has declared type date, number or integer, the
\* member is a sequence of the scalar that the format rules give for that item
\* schema's own type and format; an unrecognized format on the item schema is
\* an error, so no struct is emitted for such a node; the format of the
\* enclosing array node plays no role.

FormattedScalars == {kwDate, kwNumber, kwInteger}
RECURSIVE ReachesFormattedScalar(_)
ReachesFormattedScalar(v) ==
    /\ IsArray(v) /\ HasSingleItems(v)
    /\ \/ unwrap_or_default(ItemsOf(v).type_) \in FormattedScalars
       \/ IsArray(ItemsOf(v)) /\ ReachesFormattedScalar(ItemsOf(v))
InnermostItems(v) == NthItem(v, Hops(v))
\* The format rules applied to a scalar schema's own type and format.
ScalarOf(s) ==
    IF unwrap_or_default(s.type_) = kwDate THEN extract_date_type(s)
    ELSE IF unwrap_or_default(s.type_) = kwNumber THEN extract_number_type(s)
    ELSE extract_integer_type(s)

C11_ElementTypeFromItemFormat ==
    \A i \in Structs : \A k \in DOMAIN DeclaredProperties(origin[i].node) :
        LET v == DeclaredProperties(origin[i].node)[k] IN
        ReachesFormattedScalar(v) =>
            /\ ScalarOf(InnermostItems(v)).ok
            /\ Unwrapped(MemberFor(i, k).type_)
               = SequenceOf(ScalarOf(InnermostItems(v)).val)

\* ------------------------------------------------------------------------
\* C12: referential closure. After a successful call, every struct name that
\* a member's type refers to (directly, as the element of a Vec, as the value
\* of a BTreeMap, inside Option) is the name of a struct in results, except for
\* the members with a reserved key in a struct of level 0.

\* The type a member's type is built around: Option<..>, then Vec<..> or
\* BTreeMap<String, ..> removed.
ElementOf(ty) ==
    LET u == Unwrapped(ty) IN
    IF StartsWith(u, pfxVec) /\ EndsWith(u, sfxClose)
    THEN SubSeq(u, Len(pfxVec) + 1, Len(u) - 1)
    ELSE IF StartsWith(u, pfxBTreeMap) /\ EndsWith(u, sfxClose)
    THEN SubSeq(u, Len(pfxBTreeMap) + 1, Len(u) - 1)
    ELSE u
\* The struct name a member refers to: the resolver names a struct type
\* stack + Key, with the stack being the name of the struct it builds.
ReferenceOf(i, j) == results[i].name \o uppercase_first_letter(results[i].members[j].name)
IsReference(i, j) == ElementOf(results[i].members[j].type_) = ReferenceOf(i, j)

C12_ReferentialClosure ==
    status = "ok" =>
        \A i \in Structs : \A j \in MembersOf(i) :
            ( /\ IsReference(i, j)
              /\ ~IsReservedAt(results[i].level, results[i].members[j].name) ) =>
                StructsNamed(ReferenceOf(i, j)) # {}

====
